---- MODULE Spec2Model ----
(***************************************************************************)
(* Model of smart_split.py: splitting a PDF along its outline.             *)
(*                                                                         *)
(* Strings are sequences of one-character strings.  A pypdf outline is a   *)
(* flat list in which a nested list holds the children of the Destination  *)
(* right before it; every element is a record, a Destination               *)
(* (isList = FALSE) or a nested list (isList = TRUE).                      *)
(***************************************************************************)
EXTENDS Integers, Sequences, FiniteSets, TLC

(* ------------------------------ bounds --------------------------------- *)
MaxLen == 3
MaxNodes == 3
MaxDepth == 2
MaxPage == 1
MaxMainNodes == 3
MaxMainDepth == 2

(* --------------------------- program constants ------------------------- *)
None == -1
MaxPrefixWords == 10

(* ------------------------------ strings -------------------------------- *)
ForbiddenChars == {"\\", "/", "*", "?", ":", "\"", ",", "<", ">", "|"}
Whitespace == {" ", "\t", "\n"}
Chars == {"a", ":", " ", "\t", "_"}

RECURSIVE StringsUpTo(_)
StringsUpTo(n) ==
  IF n = 0 THEN { <<>> }
  ELSE LET shorter == StringsUpTo(n - 1)
       IN  shorter \cup { Append(s, c) : s \in { t \in shorter : Len(t) = n - 1 }, c \in Chars }

ReSubForbidden(s) == [ k \in 1..Len(s) |-> IF s[k] \in ForbiddenChars THEN "_" ELSE s[k] ]

ReplaceSpacesKept(s) == s

ReplaceSpaces(s) == [ k \in 1..Len(s) |-> IF s[k] = " " THEN "_" ELSE s[k] ]

Strip(s) ==
  LET solid == { k \in 1..Len(s) : s[k] \notin Whitespace }
  IN  IF solid = {} THEN <<>>
      ELSE LET lo == CHOOSE k \in solid : \A j \in solid : k <= j
               hi == CHOOSE k \in solid : \A j \in solid : k >= j
           IN  SubSeq(s, lo, hi)

sanitize_filename(filename) == Strip(ReplaceSpaces(ReSubForbidden(filename)))

(* ------------------------------ outlines ------------------------------- *)
Titles == { <<"a", ":">>, <<"a", " ">> }
Pages == 0..MaxPage

Destination(t, p) == [ isList |-> FALSE, title |-> t, page |-> p, items |-> <<>> ]
NestedList(s) == [ isList |-> TRUE, title |-> <<>>, page |-> None, items |-> s ]

DestinationsOver(ts, ps) == { Destination(t, p) : t \in ts, p \in ps }

(* Every outline of nesting at most `depth` that holds at most n            *)
(* Destinations, and the elements holding between 1 and j of them.  pypdf   *)
(* never appends an empty children list.                                    *)
RECURSIVE OutlinesOf(_, _, _), ElementsOf(_, _, _)
ElementsOf(j, depth, dests) ==
  (IF j = 1 THEN dests ELSE {})
  \cup (IF depth > 1
        THEN { NestedList(s) : s \in { o \in OutlinesOf(j, depth - 1, dests) : o # <<>> } }
        ELSE {})
OutlinesOf(n, depth, dests) ==
  { <<>> } \cup
  UNION { { <<e>> \o rest : e \in ElementsOf(j, depth, dests),
                            rest \in OutlinesOf(n - j, depth, dests) } : j \in 1..n }

RECURSIVE CountDestinations(_)
CountDestinations(outline) ==
  IF outline = <<>> THEN 0
  ELSE (IF Head(outline).isList THEN CountDestinations(Head(outline).items) ELSE 1)
       + CountDestinations(Tail(outline))

(* The outline of shape `shape` whose k-th Destination, in document order, *)
(* is dests[k + 1 - from].                                                 *)
RECURSIVE Fill(_, _, _)
Fill(shape, dests, from) ==
  IF shape = <<>> THEN <<>>
  ELSE LET e == Head(shape)
           here == IF e.isList THEN CountDestinations(e.items) ELSE 1
       IN  << IF e.isList THEN NestedList(Fill(e.items, dests, from)) ELSE dests[from] >>
           \o Fill(Tail(shape), dests, from + here)

Shapes(n, depth) == OutlinesOf(n, depth, { Destination(<<>>, None) })

(* --------------------------- Outline Selector -------------------------- *)
(* The first loop of get_split_nodes assigns only locals and appends       *)
(* nothing; the second, indexed, loop is the function.  An item's page is  *)
(* what reader.get_destination_page_number gives for it, None when the     *)
(* call raises.                                                            *)
get_destination_page_number(item) == item.page

DecideNoDescent(current_depth, target_depth, has_children, page_num) ==
  IF current_depth <= target_depth
    THEN IF page_num # None THEN "take" ELSE "skip"
  ELSE "skip"

DecideDropUnresolved(current_depth, target_depth, has_children, page_num) ==
  IF page_num = None THEN "skip"
  ELSE IF current_depth = target_depth THEN "take"
  ELSE IF current_depth < target_depth
    THEN IF has_children THEN "recurse" ELSE "take"
  ELSE "skip"

DecideLeavesOnly(current_depth, target_depth, has_children, page_num) ==
  IF current_depth <= target_depth
    THEN IF has_children /\ current_depth < target_depth THEN "recurse"
         ELSE IF has_children THEN "skip"
         ELSE IF page_num # None THEN "take" ELSE "skip"
  ELSE "skip"

Decide(current_depth, target_depth, has_children, page_num) ==
  IF current_depth = target_depth
    THEN IF page_num # None THEN "take" ELSE "skip"
  ELSE IF current_depth < target_depth
    THEN IF has_children THEN "recurse"
         ELSE IF page_num # None THEN "take" ELSE "skip"
  ELSE "skip"

Node(item, current_depth) ==
  [ title |-> item.title, page |-> get_destination_page_number(item), level |-> current_depth ]

RECURSIVE get_split_nodes(_, _, _), Walk(_, _, _, _)
Walk(outline, i, current_depth, target_depth) ==
  IF i > Len(outline) THEN <<>>
  ELSE
    LET item == outline[i] IN
    IF item.isList
      THEN get_split_nodes(item.items, current_depth + 1, target_depth)
           \o Walk(outline, i + 1, current_depth, target_depth)
      ELSE
        LET page_num == get_destination_page_number(item)
            has_children == i + 1 <= Len(outline) /\ outline[i + 1].isList
            children == IF has_children THEN outline[i + 1].items ELSE <<>>
            what == Decide(current_depth, target_depth, has_children, page_num)
            taken == IF what = "take" THEN << Node(item, current_depth) >> ELSE <<>>
            below == IF what = "recurse"
                       THEN get_split_nodes(children, current_depth + 1, target_depth)
                       ELSE <<>>
        IN  taken \o below
            \o Walk(outline, IF has_children THEN i + 2 ELSE i + 1, current_depth, target_depth)

get_split_nodes(outline, current_depth, target_depth) ==
  Walk(outline, 1, current_depth, target_depth)

(* ----------------------------- Plan Builder ---------------------------- *)
(* list.sort(key=page) is stable: an element goes after every element      *)
(* already placed whose page is not larger.                                *)
RECURSIVE SortByPage(_)
SortByPage(nodes) ==
  IF nodes = <<>> THEN <<>>
  ELSE LET front == SortByPage(SubSeq(nodes, 1, Len(nodes) - 1))
           x == nodes[Len(nodes)]
           keep == Cardinality({ k \in 1..Len(front) : front[k].page <= x.page })
       IN  SubSeq(front, 1, keep) \o <<x>> \o SubSeq(front, keep + 1, Len(front))

(* the same sort, an element going before its equals *)
RECURSIVE SortByPageUnstable(_)
SortByPageUnstable(nodes) ==
  IF nodes = <<>> THEN <<>>
  ELSE LET front == SortByPageUnstable(SubSeq(nodes, 1, Len(nodes) - 1))
           x == nodes[Len(nodes)]
           keep == Cardinality({ k \in 1..Len(front) : front[k].page < x.page })
       IN  SubSeq(front, 1, keep) \o <<x>> \o SubSeq(front, keep + 1, Len(front))

SortNodes(nodes) == SortByPage(nodes)

DigitChars == << "0", "1", "2", "3", "4", "5", "6", "7", "8", "9" >>

RECURSIVE Decimal(_)
Decimal(n) == IF n < 10 THEN << DigitChars[n + 1] >>
              ELSE Append(Decimal(n \div 10), DigitChars[(n % 10) + 1])

(* format spec 02d *)
Format02d(n) == IF Len(Decimal(n)) < 2 THEN <<"0">> \o Decimal(n) ELSE Decimal(n)

PdfExt == << ".", "p", "d", "f" >>

FilenameUnnumbered(prefix, number, title) ==
  prefix \o <<"_">> \o sanitize_filename(title) \o PdfExt

FilenameZeroBased(prefix, number, title) ==
  prefix \o <<"_">> \o Format02d(number - 1) \o <<"_">> \o sanitize_filename(title) \o PdfExt

Filename(prefix, number, title) ==
  prefix \o <<"_">> \o Format02d(number) \o <<"_">> \o sanitize_filename(title) \o PdfExt

DegenerateStrict(start_page, end_page) == start_page > end_page

Degenerate(start_page, end_page) == start_page >= end_page

EndPage(nodes, i, total_pages) ==
  IF i + 1 <= Len(nodes) THEN nodes[i + 1].page ELSE total_pages

(* The loop of generate_split_plan over enumerate(raw_nodes); i is the     *)
(* 1-based position, so the number in the filename is i.                   *)
RECURSIVE PlanLoop(_, _, _, _)
PlanLoop(nodes, i, total_pages, prefix) ==
  IF i > Len(nodes) THEN <<>>
  ELSE LET start_page == nodes[i].page
           end_page == EndPage(nodes, i, total_pages)
           rest == PlanLoop(nodes, i + 1, total_pages, prefix)
       IN  IF Degenerate(start_page, end_page) THEN rest
           ELSE << [ title |-> nodes[i].title,
                     start_page |-> start_page,
                     end_page |-> end_page,
                     filename |-> Filename(prefix, i, nodes[i].title) ] >> \o rest

(* prefix derivation *)
LastIndexOf(s, c) ==
  LET at == { k \in 1..Len(s) : s[k] = c }
  IN  IF at = {} THEN 0 ELSE CHOOSE k \in at : \A j \in at : j <= k

Basename(path) == SubSeq(path, LastIndexOf(path, "/") + 1, Len(path))

(* os.path.splitext(...)[0]: cut at the last dot unless only dots precede it *)
SplitextRoot(name) ==
  LET dot == LastIndexOf(name, ".")
  IN  IF dot > 0 /\ \E k \in 1..(dot - 1) : name[k] # "."
        THEN SubSeq(name, 1, dot - 1) ELSE name

RECURSIVE SplitOn(_, _)
SplitOn(s, c) ==
  LET at == { k \in 1..Len(s) : s[k] = c }
  IN  IF at = {} THEN << s >>
      ELSE LET first == CHOOSE k \in at : \A j \in at : k <= j
           IN  << SubSeq(s, 1, first - 1) >> \o SplitOn(SubSeq(s, first + 1, Len(s)), c)

RECURSIVE JoinWith(_, _)
JoinWith(words, c) ==
  IF words = <<>> THEN <<>>
  ELSE IF Len(words) = 1 THEN words[1]
  ELSE words[1] \o <<c>> \o JoinWith(Tail(words), c)

DerivePrefix(pdf_path, prefix) ==
  IF prefix = <<>>
    THEN LET clean_name == sanitize_filename(SplitextRoot(Basename(pdf_path)))
             words == SplitOn(clean_name, "_")
             kept == IF Len(words) > MaxPrefixWords
                       THEN SubSeq(words, 1, MaxPrefixWords) ELSE words
         IN  JoinWith(kept, "_")
    ELSE sanitize_filename(prefix)

(* raw_nodes as generate_split_plan leaves it: empty on an early return,   *)
(* sorted by page otherwise.                                               *)
RawNodes(can_open, reader_outline, target_layer) ==
  IF ~can_open \/ reader_outline = <<>> THEN <<>>
  ELSE SortNodes(get_split_nodes(reader_outline, 1, target_layer))

generate_split_plan(can_open, reader_outline, pages_len, pdf_path, target_layer, prefix) ==
  PlanLoop(RawNodes(can_open, reader_outline, target_layer), 1, pages_len,
           DerivePrefix(pdf_path, prefix))

(* ------------------------------- state --------------------------------- *)
VARIABLES
  readable,     \* PdfReader(pdf_path) succeeds
  outline,      \* reader.outline
  total_pages,  \* len(reader.pages)
  pdf_path, layer, prefix_arg, dry_run, plan_file,   \* args
  pc,           \* position in main, or in the function under check
  raw_nodes,    \* boundaries found by the last selection
  plan,         \* the plan main holds
  exit_code,    \* None while the process runs
  log,          \* files written so far, in order
  san_in, san_out, san_twice

vars == << readable, outline, total_pages, pdf_path, layer, prefix_arg, dry_run,
           plan_file, pc, raw_nodes, plan, exit_code, log, san_in, san_out, san_twice >>

RECURSIVE PagesIn(_)
PagesIn(o) ==
  IF o = <<>> THEN {}
  ELSE (IF Head(o).isList THEN PagesIn(Head(o).items) ELSE { Head(o).page })
       \cup PagesIn(Tail(o))

MainShapes == Shapes(MaxMainNodes, MaxMainDepth)
MainDestinations == DestinationsOver(Titles, Pages \cup {None})
SelectorShapes == Shapes(MaxNodes, MaxDepth)
SelectorDestinations == DestinationsOver(Titles, {None, 0})
PdfPaths == { << "/", "m", " ", "y", ".", "p", "d", "f" >> }
PrefixArgs == { <<>>, << "p", " " >> }

(* pypdf resolves a destination to the index of one of reader.pages, or to *)
(* nothing.                                                                *)
ReaderContract(o, n) == \A p \in PagesIn(o) : p = None \/ (0 <= p /\ p < n)

Idle ==
  /\ raw_nodes = <<>> /\ plan = <<>> /\ exit_code = None /\ log = <<>>
  /\ san_in = <<>> /\ san_out = <<>> /\ san_twice = <<>>

InitArgs ==
  /\ pdf_path \in PdfPaths
  /\ layer \in 1..(MaxMainDepth + 1)
  /\ prefix_arg \in PrefixArgs
  /\ dry_run \in BOOLEAN
  /\ plan_file \in BOOLEAN

InitReader(contract) ==
  /\ readable \in BOOLEAN
  /\ \E shape \in MainShapes :
       \E dests \in [ 1..CountDestinations(shape) -> MainDestinations ] :
         outline = Fill(shape, dests, 1)
  /\ total_pages \in 0..(MaxPage + 1)
  /\ readable => (contract => ReaderContract(outline, total_pages))
  /\ ~readable => (outline = <<>> /\ total_pages = 0)

Init == pc = "main" /\ InitArgs /\ InitReader(TRUE) /\ Idle

InitLax == pc = "main" /\ InitArgs /\ InitReader(FALSE) /\ Idle

(* -------------------------------- main --------------------------------- *)
ExitCodeFor(p) == IF p = <<>> THEN 1 ELSE 0

SplitWantedAlways(flag) == TRUE

SplitWanted(flag) == ~flag

RECURSIVE CreatedFiles(_)
CreatedFiles(p) ==
  IF p = <<>> THEN <<>>
  ELSE << [ kind |-> "pdf", name |-> Head(p).filename,
            pages |-> Head(p).end_page - Head(p).start_page ] >> \o CreatedFiles(Tail(p))

PlanFileRecord(p) == [ kind |-> "plan", name |-> <<>>, pages |-> Len(p) ]

GenerateSplitPlan ==
  /\ pc = "main"
  /\ raw_nodes' = RawNodes(readable, outline, layer)
  /\ plan' = generate_split_plan(readable, outline, total_pages, pdf_path, layer, prefix_arg)
  /\ pc' = "planned"
  /\ UNCHANGED << readable, outline, total_pages, pdf_path, layer, prefix_arg, dry_run,
                  plan_file, exit_code, log, san_in, san_out, san_twice >>

ExitNoPlan ==
  /\ pc = "planned"
  /\ ExitCodeFor(plan) # 0
  /\ exit_code' = ExitCodeFor(plan)
  /\ pc' = "exited"
  /\ UNCHANGED << readable, outline, total_pages, pdf_path, layer, prefix_arg, dry_run,
                  plan_file, raw_nodes, plan, log, san_in, san_out, san_twice >>

SavePlan ==
  /\ pc = "planned"
  /\ ExitCodeFor(plan) = 0
  /\ log' = IF plan_file THEN Append(log, PlanFileRecord(plan)) ELSE log
  /\ pc' = "saved"
  /\ UNCHANGED << readable, outline, total_pages, pdf_path, layer, prefix_arg, dry_run,
                  plan_file, raw_nodes, plan, exit_code, san_in, san_out, san_twice >>

(* reader.pages[p] raises IndexError for p >= len(reader.pages): the items  *)
(* before the first one that reaches past the last page are written, then  *)
(* the process dies with the uncaught exception.                           *)
ExecuteSplit ==
  /\ pc = "saved"
  /\ SplitWanted(dry_run)
  /\ LET past == { k \in 1..Len(plan) : plan[k].end_page > total_pages }
         done == IF past = {} THEN Len(plan)
                 ELSE (CHOOSE k \in past : \A j \in past : k <= j) - 1
     IN  /\ log' = log \o CreatedFiles(SubSeq(plan, 1, done))
         /\ exit_code' = IF past = {} THEN 0 ELSE 1
  /\ pc' = "exited"
  /\ UNCHANGED << readable, outline, total_pages, pdf_path, layer, prefix_arg, dry_run,
                  plan_file, raw_nodes, plan, san_in, san_out, san_twice >>

DryRunComplete ==
  /\ pc = "saved"
  /\ ~SplitWanted(dry_run)
  /\ exit_code' = 0
  /\ pc' = "exited"
  /\ UNCHANGED << readable, outline, total_pages, pdf_path, layer, prefix_arg, dry_run,
                  plan_file, raw_nodes, plan, log, san_in, san_out, san_twice >>

Next == GenerateSplitPlan \/ ExitNoPlan \/ SavePlan \/ ExecuteSplit \/ DryRunComplete

Spec == Init /\ [][Next]_vars

SpecLax == InitLax /\ [][Next]_vars

(* ---------------------- the selector on its own ------------------------ *)
InitSelect ==
  /\ pc = "select"
  /\ readable = TRUE
  /\ \E shape \in SelectorShapes :
       \E dests \in [ 1..CountDestinations(shape) -> SelectorDestinations ] :
         outline = Fill(shape, dests, 1)
  /\ total_pages = MaxPage + 1
  /\ pdf_path \in PdfPaths
  /\ layer \in 1..(MaxDepth + 1)
  /\ prefix_arg = <<>> /\ dry_run = TRUE /\ plan_file = FALSE
  /\ Idle

Select ==
  /\ pc = "select"
  /\ raw_nodes' = get_split_nodes(outline, 1, layer)
  /\ pc' = "selected"
  /\ UNCHANGED << readable, outline, total_pages, pdf_path, layer, prefix_arg, dry_run,
                  plan_file, plan, exit_code, log, san_in, san_out, san_twice >>

NextSelect == Select

SpecSelect == InitSelect /\ [][NextSelect]_vars

(* ------------------- sanitize_filename on its own ---------------------- *)
InitSanitize ==
  /\ pc = "sanitize"
  /\ readable = FALSE /\ outline = <<>> /\ total_pages = 0
  /\ pdf_path \in PdfPaths
  /\ layer = 1 /\ prefix_arg = <<>> /\ dry_run = TRUE /\ plan_file = FALSE
  /\ raw_nodes = <<>> /\ plan = <<>> /\ exit_code = None /\ log = <<>>
  /\ san_in \in StringsUpTo(MaxLen)
  /\ san_out = <<>> /\ san_twice = <<>>

Sanitize ==
  /\ pc = "sanitize"
  /\ san_out' = sanitize_filename(san_in)
  /\ pc' = "sanitized"
  /\ UNCHANGED << readable, outline, total_pages, pdf_path, layer, prefix_arg, dry_run,
                  plan_file, raw_nodes, plan, exit_code, log, san_in, san_twice >>

SanitizeAgain ==
  /\ pc = "sanitized"
  /\ san_twice' = sanitize_filename(san_out)
  /\ pc' = "sanitized twice"
  /\ UNCHANGED << readable, outline, total_pages, pdf_path, layer, prefix_arg, dry_run,
                  plan_file, raw_nodes, plan, exit_code, log, san_in, san_out >>

NextSanitize == Sanitize \/ SanitizeAgain

SpecSanitize == InitSanitize /\ [][NextSanitize]_vars

(* ===================== reading an outline as a tree ==================== *)
(* A path is the sequence of indices leading to an element; its length is  *)
(* the element's depth.                                                    *)
RECURSIVE PathsOf(_)
PathsOf(o) ==
  UNION { { <<k>> } \cup
          (IF o[k].isList THEN { <<k>> \o q : q \in PathsOf(o[k].items) } ELSE {})
          : k \in 1..Len(o) }

RECURSIVE At(_, _)
At(o, p) == IF Len(p) = 1 THEN o[p[1]] ELSE At(o[p[1]].items, Tail(p))

FrontOf(p) == SubSeq(p, 1, Len(p) - 1)
ListHolding(o, p) == IF Len(p) = 1 THEN o ELSE At(o, FrontOf(p)).items
DestinationPaths(o) == { p \in PathsOf(o) : ~At(o, p).isList }
ChildrenPath(p) == FrontOf(p) \o << p[Len(p)] + 1 >>
HasChildrenList(o, p) ==
  LET l == ListHolding(o, p) IN p[Len(p)] + 1 <= Len(l) /\ l[p[Len(p)] + 1].isList
IsPrefix(q, p) == Len(q) < Len(p) /\ SubSeq(p, 1, Len(q)) = q
Descendants(o, n) ==
  IF HasChildrenList(o, n)
    THEN { m \in DestinationPaths(o) : IsPrefix(ChildrenPath(n), m) } ELSE {}
Before(p, q) ==
  \E k \in 1..Len(p) : k <= Len(q) /\ p[k] < q[k] /\ \A j \in 1..(k - 1) : p[j] = q[j]
NodeAt(o, p) == [ title |-> At(o, p).title, page |-> At(o, p).page, level |-> Len(p) ]
Resolves(o, p) == At(o, p).page # None
(* no two Destinations of o would give the same boundary record *)
Distinguishable(o) ==
  \A p, q \in DestinationPaths(o) : NodeAt(o, p) = NodeAt(o, q) => p = q
Boundaries(nodes) == { nodes[k] : k \in 1..Len(nodes) }

(* The Destinations the selection rule names: resolved, and at the target  *)
(* depth or childless above it.                                            *)
Selected(o, d) ==
  { p \in DestinationPaths(o) :
      Resolves(o, p) /\ (Len(p) = d \/ (Len(p) < d /\ ~HasChildrenList(o, p))) }

(* ============================== claims ================================= *)

(* C1: every boundary returned by get_split_nodes(outline, reader, 1, d)   *)
(* has level d, or has a level below d and is a Destination with no        *)
(* children list; none has a level above d.                                *)
BoundaryLevels ==
  pc = "selected" =>
    \A k \in 1..Len(raw_nodes) :
      \/ raw_nodes[k].level = layer
      \/ /\ raw_nodes[k].level < layer
         /\ \E p \in DestinationPaths(outline) :
              NodeAt(outline, p) = raw_nodes[k] /\ ~HasChildrenList(outline, p)

BoundaryLevelsWitness ==
  /\ pc = "selected"
  /\ \E j, k \in 1..Len(raw_nodes) :
       raw_nodes[j].level < layer /\ raw_nodes[k].level = layer
  /\ \E p \in DestinationPaths(outline) : HasChildrenList(outline, p) /\ Len(p) < layer

(* C3 as written: a Destination whose page does not resolve is dropped with *)
(* its whole subtree: neither it nor any descendant is a boundary.         *)
UnresolvedSubtreeDropped ==
  (pc = "selected" /\ Distinguishable(outline)) =>
    \A n \in DestinationPaths(outline) :
      ~Resolves(outline, n) =>
        \A m \in {n} \cup Descendants(outline, n) :
          NodeAt(outline, m) \notin Boundaries(raw_nodes)

(* C3 amended: a Destination whose page does not resolve is never a        *)
(* boundary itself, at any depth, but its children list is explored like   *)
(* any other: every descendant the selection rule names is a boundary, at  *)
(* its place in document order.                                            *)
UnresolvedNodeOnlyDropped ==
  pc = "selected" =>
    LET chosen == Selected(outline, layer)
        rank(p) == 1 + Cardinality({ q \in chosen : Before(q, p) })
    IN  /\ \A k \in 1..Len(raw_nodes) : raw_nodes[k].page # None
        /\ \A n \in DestinationPaths(outline) :
             ~Resolves(outline, n) =>
               /\ Distinguishable(outline) => NodeAt(outline, n) \notin Boundaries(raw_nodes)
               /\ \A m \in Descendants(outline, n) \cap chosen :
                    rank(m) <= Len(raw_nodes) /\ raw_nodes[rank(m)] = NodeAt(outline, m)

UnresolvedNodeOnlyDroppedWitness ==
  /\ pc = "selected"
  /\ Distinguishable(outline)
  /\ \E n \in DestinationPaths(outline) :
       /\ ~Resolves(outline, n)
       /\ \E m \in Descendants(outline, n) : NodeAt(outline, m) \in Boundaries(raw_nodes)

(* C9: the boundaries are exactly the Destinations the selection rule      *)
(* names (among them every such Destination whose ancestors all resolve),  *)
(* each once, in depth-first left-to-right order.                          *)
SelectionComplete ==
  pc = "selected" =>
    LET chosen == Selected(outline, layer)
        rank(p) == 1 + Cardinality({ q \in chosen : Before(q, p) })
    IN  /\ Len(raw_nodes) = Cardinality(chosen)
        /\ \A p \in chosen : raw_nodes[rank(p)] = NodeAt(outline, p)

SelectionCompleteWitness ==
  /\ pc = "selected"
  /\ Len(raw_nodes) >= 2
  /\ \E p \in Selected(outline, layer) : HasChildrenList(outline, p)
  /\ \E p, q \in Selected(outline, layer) : At(outline, p).title # At(outline, q).title

(* --------------------------- the plan ---------------------------------- *)
Traversal == get_split_nodes(outline, 1, layer)
Prefix == DerivePrefix(pdf_path, prefix_arg)
Smallest(S) == CHOOSE k \in S : \A j \in S : k <= j
Largest(S) == CHOOSE k \in S : \A j \in S : k >= j

DigitValue(c) == CHOOSE d \in 0..9 : DigitChars[d + 1] = c
RECURSIVE ParseDecimal(_)
ParseDecimal(ds) ==
  IF ds = <<>> THEN 0
  ELSE 10 * ParseDecimal(SubSeq(ds, 1, Len(ds) - 1)) + DigitValue(ds[Len(ds)])

(* the digits between the prefix's underscore and the next one *)
NumberField(filename) ==
  LET rest == SubSeq(filename, Len(Prefix) + 2, Len(filename))
      stop == Smallest({ k \in 1..Len(rest) : rest[k] = "_" })
  IN  SubSeq(rest, 1, stop - 1)
NumberOf(entry) == ParseDecimal(NumberField(entry.filename))
BoundariesUpTo(page) == { j \in 1..Len(Traversal) : Traversal[j].page <= page }
BoundariesAt(page) == { j \in 1..Len(Traversal) : Traversal[j].page = page }
EntriesAt(page) == { k \in 1..Len(plan) : plan[k].start_page = page }
Contiguous ==
  /\ \A k \in 1..(Len(plan) - 1) : plan[k].end_page = plan[k + 1].start_page
  /\ plan # <<>> => plan[Len(plan)].end_page = total_pages
KindsIn(l, kind) == { k \in 1..Len(l) : l[k].kind = kind }

(* C2: a non-empty plan partitions the pages: every entry has              *)
(* start_page < end_page <= total_pages, start pages increase, every       *)
(* end_page is the next entry's start_page, the last end_page is           *)
(* total_pages, and the first start_page is the smallest boundary page.    *)
PlanIsPartition ==
  plan # <<>> =>
    /\ \A k \in 1..Len(plan) :
         plan[k].start_page < plan[k].end_page /\ plan[k].end_page <= total_pages
    /\ \A k \in 1..(Len(plan) - 1) :
         /\ plan[k].start_page < plan[k + 1].start_page
         /\ plan[k].end_page = plan[k + 1].start_page
    /\ plan[Len(plan)].end_page = total_pages
    /\ \A j \in 1..Len(raw_nodes) : plan[1].start_page <= raw_nodes[j].page
    /\ \E j \in 1..Len(raw_nodes) : plan[1].start_page = raw_nodes[j].page

PlanIsPartitionWitness ==
  /\ Len(plan) >= 2
  /\ Len(raw_nodes) > Len(plan)
  /\ \E j \in 1..(Len(Traversal) - 1) : Traversal[j].page > Traversal[j + 1].page

FirstOnPageKept ==
  pc # "main" =>
    \A page \in Pages :
      Cardinality(BoundariesAt(page)) >= 2 =>
        \E k \in EntriesAt(page) :
          plan[k].title = Traversal[Smallest(BoundariesAt(page))].title

(* C5 amended: of the boundaries on one page the last, in traversal order, *)
(* keeps the one plan entry of that page and every earlier one is skipped; *)
(* the entries still run without gaps up to total_pages.                   *)
LastOnPageKept ==
  pc # "main" =>
    /\ \A page \in Pages :
         Cardinality(BoundariesAt(page)) >= 2 =>
           /\ Cardinality(EntriesAt(page)) = 1
           /\ \A k \in EntriesAt(page) :
                plan[k].title = Traversal[Largest(BoundariesAt(page))].title
    /\ (\E page \in Pages : Cardinality(BoundariesAt(page)) >= 2) => Contiguous

LastOnPageKeptWitness ==
  /\ pc # "main"
  /\ Len(plan) >= 2
  /\ \E page \in Pages :
       /\ Cardinality(BoundariesAt(page)) >= 2
       /\ Traversal[Smallest(BoundariesAt(page))].title
            # Traversal[Largest(BoundariesAt(page))].title

(* C6: main exits non-zero exactly when the plan is empty, and then writes *)
(* nothing; with a plan it exits 0, the plan file (when asked for) is      *)
(* written before any split output, and --dry-run writes no split output.  *)
MainOutcome ==
  /\ pc = "exited" => (exit_code # 0 <=> plan = <<>>)
  /\ (pc = "exited" /\ plan # <<>>) => exit_code = 0
  /\ (pc # "main" /\ plan = <<>>) => log = <<>>
  /\ dry_run => KindsIn(log, "pdf") = {}
  /\ \A i \in KindsIn(log, "pdf") : \A j \in KindsIn(log, "plan") : j < i
  /\ (plan_file /\ KindsIn(log, "pdf") # {}) => KindsIn(log, "plan") # {}
  /\ (pc = "exited" /\ exit_code = 0) =>
       /\ Cardinality(KindsIn(log, "plan")) = (IF plan_file THEN 1 ELSE 0)
       /\ ~dry_run => Cardinality(KindsIn(log, "pdf")) = Len(plan)

MainOutcomeWitness ==
  /\ pc = "exited" /\ exit_code = 0
  /\ plan_file /\ ~dry_run
  /\ Len(log) >= 3

(* C7: no two entries of a plan have the same filename.                    *)
FilenamesUnique ==
  \A i, j \in 1..Len(plan) : plan[i].filename = plan[j].filename => i = j

FilenamesUniqueWitness ==
  /\ Len(raw_nodes) > Len(plan)
  /\ \E i, j \in 1..Len(plan) :
       /\ i # j
       /\ plan[i].title # plan[j].title
       /\ sanitize_filename(plan[i].title) = sanitize_filename(plan[j].title)

(* C10 as written: the k-th entry of the plan carries the number k, in at  *)
(* least two digits.                                                       *)
NumbersContiguous ==
  \A k \in 1..Len(plan) :
    NumberOf(plan[k]) = k /\ Len(NumberField(plan[k].filename)) >= 2

(* C10 amended: an entry carries, in at least two digits, the 1-based      *)
(* position of its boundary among the page-sorted boundaries, which is the *)
(* count of boundaries on pages up to its start_page: numbers increase and *)
(* the k-th is at least k, a skipped section leaving a gap.                *)
NumbersArePositions ==
  \A k \in 1..Len(plan) :
    /\ NumberOf(plan[k]) = Cardinality(BoundariesUpTo(plan[k].start_page))
    /\ NumberOf(plan[k]) >= k
    /\ Len(NumberField(plan[k].filename)) >= 2

NumbersArePositionsWitness ==
  /\ Len(plan) >= 2
  /\ \E k \in 1..Len(plan) : NumberOf(plan[k]) > k

(* C8: sanitize_filename's result holds no forbidden character and no      *)
(* space, and sanitizing it again changes nothing.                         *)
ClaimedForbidden == { "\\", "/", "*", "?", ":", "\"", "<", ">", "|" }

SanitizeCleanAndIdempotent ==
  /\ pc \in { "sanitized", "sanitized twice" } =>
       \A k \in 1..Len(san_out) : san_out[k] \notin ClaimedForbidden \cup { " " }
  /\ pc = "sanitized twice" => san_twice = san_out

SanitizeCleanAndIdempotentWitness ==
  /\ pc = "sanitized twice"
  /\ \E k \in 1..Len(san_in) : san_in[k] \in ClaimedForbidden
  /\ \E k \in 1..Len(san_in) : san_in[k] = " "
  /\ \E k \in 1..Len(san_in) : san_in[k] = "\t"
  /\ san_out # <<>>

====
